---- MODULE Spec2Model ----
(***************************************************************************)
(* ContactManager (src/contact_manager.py) and the Flask routes that drive *)
(* it (src/ui_web/app.py), as a state machine.                             *)
(*                                                                         *)
(* Text is a sequence of code points (<<66, 111>> is "Bo"), so that        *)
(* lower(), the regular expressions, `in` and the sort key are computed    *)
(* character by character as the Python code computes them.                *)
(***************************************************************************)
EXTENDS Integers, Sequences, FiniteSets, TLC

VARIABLES contacts, next_id, file, clock, result, assigned, lastReturned,
          requests

vars == <<contacts, next_id, file, clock, result, assigned, lastReturned,
          requests>>

\* The last instant of the logical clock: no operation reads the clock
\* after it, which bounds the number of successful add/update calls.
MaxClock == 2

----------------------------------------------------------------------------
\* Text values

S_empty == << >>
S_al == <<97, 108>>
S_Al == <<65, 108>>
S_Bo == <<66, 111>>
S_sp == <<32>>
S_x == <<120>>
S_bo_st == <<98, 111, 32, 115, 116>>
S_email_ok == <<97, 64, 98, 46, 99, 111>>
S_email_bad == <<98, 97, 100>>
S_phone_ok == <<53, 53, 53, 45, 49, 50, 51, 45, 52, 53, 54, 55>>
S_phone_bad == <<49, 50, 51, 52, 53>>

IsDigit(c) == c >= 48 /\ c <= 57
IsUpper(c) == c >= 65 /\ c <= 90
IsLetter(c) == IsUpper(c) \/ (c >= 97 /\ c <= 122)
IsSpace(c) == c = 32 \/ (c >= 9 /\ c <= 13)

\* str.lower()
lower(s) == [i \in 1..Len(s) |-> IF IsUpper(s[i]) THEN s[i] + 32 ELSE s[i]]

\* str.strip()
RECURSIVE lstrip(_)
lstrip(s) == IF s # << >> /\ IsSpace(Head(s)) THEN lstrip(Tail(s)) ELSE s

RECURSIVE rstrip(_)
rstrip(s) ==
    IF s # << >> /\ IsSpace(s[Len(s)]) THEN rstrip(SubSeq(s, 1, Len(s) - 1)) ELSE s

strip(s) == rstrip(lstrip(s))

\* `q in s` on str
contains(s, q) ==
    \E i \in 0..(Len(s) - Len(q)) : SubSeq(s, i + 1, i + Len(q)) = q

\* `a < b` on str: by code point, a proper prefix first
RECURSIVE str_lt(_, _)
str_lt(a, b) ==
    IF b = << >> THEN FALSE
    ELSE IF a = << >> THEN TRUE
    ELSE IF Head(a) # Head(b) THEN Head(a) < Head(b)
    ELSE str_lt(Tail(a), Tail(b))

----------------------------------------------------------------------------
\* Validation

\* the character classes of the pattern of validate_email
EmailLocalChar(c) == IsLetter(c) \/ IsDigit(c) \/ c \in {46, 95, 37, 43, 45}
EmailDomainChar(c) == IsLetter(c) \/ IsDigit(c) \/ c \in {46, 45}

\* re.match(r'^[a-zA-Z0-9._%+-]+@[a-zA-Z0-9.-]+\.[a-zA-Z]{2,}$', email):
\* some '@' at i and some '.' at j split the text into the three parts;
\* '$' also matches just before one trailing newline.
validate_email(email) ==
    \E n \in {Len(email)} \cup
             (IF email # << >> /\ email[Len(email)] = 10 THEN {Len(email) - 1} ELSE {}) :
      \E i \in 2..n : \E j \in (i + 2)..n :
          /\ email[i] = 64
          /\ email[j] = 46
          /\ \A k \in 1..(i - 1) : EmailLocalChar(email[k])
          /\ \A k \in (i + 1)..(j - 1) : EmailDomainChar(email[k])
          /\ n - j >= 2
          /\ \A k \in (j + 1)..n : IsLetter(email[k])

\* re.sub(r'\D', '', phone)
digits_only(phone) == SelectSeq(phone, IsDigit)

validate_phone(phone) == Len(digits_only(phone)) >= 10

----------------------------------------------------------------------------
\* Records and the backing file

\* the keys of the dict add_contact builds, in the order it writes them
FieldOrder ==
    <<"id", "name", "email", "phone", "address", "company", "notes",
      "created_at", "updated_at">>

Fields == {FieldOrder[i] : i \in 1..Len(FieldOrder)}

\* datetime.isoformat(): the text of an instant ("T" and the instant's digit)
isoformat(t) == <<84, 48 + t>>

NoFile == [kind |-> "absent", text |-> << >>]
BadFile == [kind |-> "malformed", text |-> << >>]

\* json.dump(self.contacts, f, indent=2): every dict as its (key, value)
\* pairs in the dict's key order
json_dump(cs) ==
    [i \in 1..Len(cs) |->
        [j \in 1..Len(FieldOrder) |-> <<FieldOrder[j], cs[i][FieldOrder[j]]>>]]

\* json.load(f): every object becomes a dict of its pairs
json_load(text) ==
    [i \in 1..Len(text) |->
        [k \in {text[i][j][1] : j \in 1..Len(text[i])} |->
            LET j == CHOOSE j \in 1..Len(text[i]) : text[i][j][1] = k
            IN  text[i][j][2]]]

load_contacts(f) == IF f.kind = "json" THEN json_load(f.text) ELSE << >>

save_contacts(cs) == [kind |-> "json", text |-> json_dump(cs)]

RECURSIVE max_id(_)
max_id(cs) ==
    IF Len(cs) = 1 THEN cs[1]["id"]
    ELSE LET m == max_id(Tail(cs))
         IN  IF cs[1]["id"] > m THEN cs[1]["id"] ELSE m

get_next_id(cs) == IF cs = << >> THEN 1 ELSE max_id(cs) + 1

\* the index of the first contact with this id, 0 when there is none
\* (the linear scans of update_contact, delete_contact and get_contact)
find(cs, contact_id) ==
    IF \E i \in 1..Len(cs) : cs[i]["id"] = contact_id
    THEN CHOOSE i \in 1..Len(cs) :
            /\ cs[i]["id"] = contact_id
            /\ \A j \in 1..(i - 1) : cs[j]["id"] # contact_id
    ELSE 0

----------------------------------------------------------------------------
\* add_contact

\* the two checks that precede the construction of the record
add_raises(a) ==
    \/ a.email # << >> /\ ~validate_email(a.email)
    \/ a.phone # << >> /\ ~validate_phone(a.phone)

new_contact(id, a, t1, t2) ==
    [k \in Fields |->
        CASE k = "id" -> id
          [] k = "created_at" -> isoformat(t1)
          [] k = "updated_at" -> isoformat(t2)
          [] OTHER -> a[k]]

\* self.next_id += 1
bump_next_id(n) == n + 1

----------------------------------------------------------------------------
\* update_contact

\* as update_raises, had the phone check been left out
update_raises_email_only(kwargs) ==
    /\ "email" \in DOMAIN kwargs
    /\ kwargs["email"] # << >>
    /\ ~validate_email(kwargs["email"])

update_raises(kwargs) ==
    \/ /\ "email" \in DOMAIN kwargs
       /\ kwargs["email"] # << >>
       /\ ~validate_email(kwargs["email"])
    \/ /\ "phone" \in DOMAIN kwargs
       /\ kwargs["phone"] # << >>
       /\ ~validate_phone(kwargs["phone"])

\* as apply_update, had the loop been contact.update(kwargs)
apply_update_all_keys(contact, kwargs, t) ==
    [k \in DOMAIN contact \cup DOMAIN kwargs |->
        IF k = "updated_at" THEN isoformat(t)
        ELSE IF k \in DOMAIN kwargs THEN kwargs[k]
        ELSE contact[k]]

\* for key, value in kwargs.items(): if key in contact: contact[key] = value
\* and then contact['updated_at'] = datetime.now().isoformat()
apply_update(contact, kwargs, t) ==
    [k \in DOMAIN contact |->
        IF k = "updated_at" THEN isoformat(t)
        ELSE IF k \in DOMAIN kwargs THEN kwargs[k]
        ELSE contact[k]]

\* del self.contacts[i]
remove_at(cs, i) == SubSeq(cs, 1, i - 1) \o SubSeq(cs, i + 1, Len(cs))

----------------------------------------------------------------------------
\* list_contacts and search_contacts

\* as sort_key, had the key been the name as written
sort_key_as_written(contact) == contact["name"]

sort_key(contact) == lower(contact["name"])

\* one step of the stable sort: x goes behind every element whose key is
\* not greater than its own
RECURSIVE insert_sorted(_, _)
insert_sorted(sorted, x) ==
    IF sorted = << >> THEN <<x>>
    ELSE IF str_lt(sort_key(x), sort_key(Head(sorted)))
         THEN <<x>> \o sorted
         ELSE <<Head(sorted)>> \o insert_sorted(Tail(sorted), x)

\* sorted(cs, key=lambda x: x['name'].lower())
RECURSIVE sorted_by_name(_)
sorted_by_name(cs) ==
    IF cs = << >> THEN << >>
    ELSE insert_sorted(sorted_by_name(SubSeq(cs, 1, Len(cs) - 1)), cs[Len(cs)])

list_contacts(cs) == sorted_by_name(cs)

\* the condition of the loop of search_contacts, query already lowercased
matches(contact, query) ==
    \/ contains(lower(contact["name"]), query)
    \/ contains(lower(contact["email"]), query)
    \/ contains(lower(contact["phone"]), query)
    \/ contains(lower(contact["company"]), query)
    \/ contains(lower(contact["notes"]), query)

search_contacts(cs, query) ==
    LET q == lower(query)
        hit(c) == matches(c, q)
    IN  sorted_by_name(SelectSeq(cs, hit))

----------------------------------------------------------------------------
\* get_stats and export_contacts

\* str.upper() of one character
upper_char(c) == IF c >= 97 /\ c <= 122 THEN c - 32 ELSE c

count(cs, field) == Cardinality({i \in 1..Len(cs) : cs[i][field] # << >>})

\* contact['name'][0] of some contact raises IndexError
stats_raises(cs) == \E i \in 1..Len(cs) : cs[i]["name"] = << >>

get_stats(cs) ==
    [total |-> Len(cs),
     with_email |-> count(cs, "email"),
     with_phone |-> count(cs, "phone"),
     with_company |-> count(cs, "company"),
     by_letter |->
        [c \in {upper_char(cs[i]["name"][1]) : i \in 1..Len(cs)} |->
            Cardinality({i \in 1..Len(cs) : upper_char(cs[i]["name"][1]) = c})]]

\* ",".join(headers)
CsvHeader ==
    <<73, 68, 44,
      78, 97, 109, 101, 44,
      69, 109, 97, 105, 108, 44,
      80, 104, 111, 110, 101, 44,
      67, 111, 109, 112, 97, 110, 121, 44,
      65, 100, 100, 114, 101, 115, 115, 44,
      78, 111, 116, 101, 115, 44,
      67, 114, 101, 97, 116, 101, 100>>

NoContactsText == <<78, 111, 32, 99, 111, 110, 116, 97, 99, 116, 115, 32, 116, 111, 32,
    101, 120, 112, 111, 114, 116>>

\* str(n) of an id
RECURSIVE str_int(_)
str_int(n) == IF n < 10 THEN <<48 + n>> ELSE str_int(n \div 10) \o <<48 + (n % 10)>>

\* f'"{text}"'
quoted(text) == <<34>> \o text \o <<34>>

\* sep.join(parts)
RECURSIVE join(_, _)
join(sep, parts) ==
    IF parts = << >> THEN << >>
    ELSE IF Len(parts) = 1 THEN parts[1]
    ELSE parts[1] \o sep \o join(sep, Tail(parts))

csv_row(contact) ==
    join(<<44>>,
         <<str_int(contact["id"]), quoted(contact["name"]), quoted(contact["email"]),
           quoted(contact["phone"]), quoted(contact["company"]),
           quoted(contact["address"]), quoted(contact["notes"]),
           SubSeq(contact["created_at"], 1,
                  IF Len(contact["created_at"]) < 19 THEN Len(contact["created_at"])
                  ELSE 19)>>)

export_csv(cs) ==
    IF cs = << >> THEN NoContactsText
    ELSE join(<<10>>, <<CsvHeader>> \o [i \in 1..Len(cs) |-> csv_row(cs[i])])

Formats == {"json", "csv", "xml"}

----------------------------------------------------------------------------
\* Inputs

NoArgs == [k \in {} |-> << >>]

Args(name, email, phone, address, company, notes) ==
    [name |-> name, email |-> email, phone |-> phone, address |-> address,
     company |-> company, notes |-> notes]

\* arguments of add_contact: two that pass, an empty name, a bad email
\* beside a good phone, a bad phone beside a good email
AddInputs ==
    { Args(S_al, S_email_ok, S_empty, S_empty, S_empty, S_empty),
      Args(S_Bo, S_empty, S_phone_ok, S_empty, S_x, S_empty),
      Args(S_empty, S_empty, S_empty, S_empty, S_empty, S_empty),
      Args(S_Bo, S_email_bad, S_phone_ok, S_empty, S_empty, S_empty),
      Args(S_Bo, S_email_ok, S_phone_bad, S_empty, S_empty, S_empty) }

\* keyword arguments of update_contact: a field and a key no record has,
\* two validated fields, the keys add_contact sets itself, and two that
\* fail validation beside a field that would pass
UpdateInputs ==
    { [name |-> S_Bo, nickname |-> S_x],
      [email |-> S_email_ok, phone |-> S_phone_ok],
      [id |-> 2, created_at |-> S_x, updated_at |-> S_x],
      [name |-> S_Al, email |-> S_email_bad],
      [phone |-> S_phone_bad, company |-> S_x] }

\* request.form of the two POST routes
CreateForms ==
    { [name |-> S_sp],
      [name |-> S_Bo, phone |-> S_phone_bad] }

UpdateForms ==
    { [email |-> <<97, 64, 98, 46, 99, 111, 32>>],
      [name |-> S_Bo, email |-> S_email_bad] }

Queries == {S_empty, <<98, 111>>}

\* the inputs of the runs that exercise list_contacts and search_contacts:
\* names that differ in case only, and a text that occurs in one contact's
\* name and in another's address
SearchAddInputs ==
    { Args(S_al, S_email_ok, S_empty, S_empty, S_empty, S_empty),
      Args(S_Bo, S_empty, S_phone_ok, S_empty, S_x, S_empty),
      Args(S_Al, S_empty, S_empty, S_bo_st, S_empty, S_x) }

SearchUpdateInputs == { [name |-> S_al] }

SearchQueries == {S_empty, <<65, 76>>, <<98, 111>>, S_x, <<64>>, <<53>>}

Ids == 1..2

----------------------------------------------------------------------------
\* The store

Result(op, id, args, status, ret, wrote) ==
    [op |-> op, id |-> id, args |-> args, status |-> status, ret |-> ret,
     wrote |-> wrote]

\* ContactManager(data_file): __init__
Construct(f) ==
    /\ contacts = load_contacts(f)
    /\ next_id = get_next_id(contacts)

\* the server's threads, each to handle one request
NumThreads == 2

Threads == 1..NumThreads

\* a thread that has not received its request
Waiting == [pc |-> "waiting", args |-> NoArgs, contact |-> NoArgs, loaded |-> 0,
            buffer |-> << >>, flash |-> "none"]

Init ==
    /\ file \in {NoFile, BadFile}
    /\ Construct(file)
    /\ clock = 0
    /\ result = Result("init", 0, NoArgs, "ok", << >>, FALSE)
    /\ assigned = {}
    /\ lastReturned = 0
    /\ requests = [t \in Threads |-> Waiting]

\* a new ContactManager over the same data file
Reload ==
    /\ contacts' = load_contacts(file)
    /\ next_id' = get_next_id(contacts')
    /\ result' = Result("init", 0, NoArgs, "ok", << >>, FALSE)
    /\ lastReturned' = 0
    /\ UNCHANGED <<file, clock, assigned>>

\* add_contact(**a), op names the caller
add_contact(op, a) ==
    IF add_raises(a)
    THEN /\ result' = Result(op, 0, a, "ValueError", << >>, FALSE)
         /\ UNCHANGED <<contacts, next_id, file, clock, assigned, lastReturned>>
    ELSE \E t2 \in {clock, clock + 1} :
         LET contact == new_contact(next_id, a, clock, t2)
         IN  /\ t2 <= MaxClock
             /\ contacts' = Append(contacts, contact)
             /\ next_id' = bump_next_id(next_id)
             /\ file' = save_contacts(contacts')
             /\ clock' = t2 + 1
             /\ result' = Result(op, 0, a, "contact", <<contact>>, TRUE)
             /\ assigned' = assigned \cup {contact["id"]}
             /\ lastReturned' = contact["id"]

\* as update_contact, had the two checks come before the scan for the id
update_contact_checks_first(op, contact_id, kwargs) ==
    LET i == find(contacts, contact_id)
    IN  IF update_raises(kwargs)
        THEN /\ result' = Result(op, contact_id, kwargs, "ValueError", << >>, FALSE)
             /\ UNCHANGED <<contacts, next_id, file, clock, assigned, lastReturned>>
        ELSE IF i = 0
        THEN /\ result' = Result(op, contact_id, kwargs, "None", << >>, FALSE)
             /\ UNCHANGED <<contacts, next_id, file, clock, assigned, lastReturned>>
        ELSE LET contact == apply_update(contacts[i], kwargs, clock)
             IN  /\ clock <= MaxClock
                 /\ contacts' = [contacts EXCEPT ![i] = contact]
                 /\ file' = save_contacts(contacts')
                 /\ clock' = clock + 1
                 /\ result' = Result(op, contact_id, kwargs, "contact", <<contact>>, TRUE)
                 /\ UNCHANGED <<next_id, assigned, lastReturned>>

\* as update_contact, had the two checks come after the loop that writes
\* the fields
update_contact_checks_late(op, contact_id, kwargs) ==
    LET i == find(contacts, contact_id)
    IN  IF i = 0
        THEN /\ result' = Result(op, contact_id, kwargs, "None", << >>, FALSE)
             /\ UNCHANGED <<contacts, next_id, file, clock, assigned, lastReturned>>
        ELSE LET contact == apply_update(contacts[i], kwargs, clock)
             IN  /\ clock <= MaxClock
                 /\ contacts' = [contacts EXCEPT ![i] = contact]
                 /\ clock' = clock + 1
                 /\ IF update_raises(kwargs)
                    THEN /\ result' = Result(op, contact_id, kwargs, "ValueError",
                                             << >>, FALSE)
                         /\ UNCHANGED file
                    ELSE /\ result' = Result(op, contact_id, kwargs, "contact",
                                             <<contact>>, TRUE)
                         /\ file' = save_contacts(contacts')
                 /\ UNCHANGED <<next_id, assigned, lastReturned>>

\* update_contact(contact_id, **kwargs)
update_contact(op, contact_id, kwargs) ==
    LET i == find(contacts, contact_id)
    IN  IF i = 0
        THEN /\ result' = Result(op, contact_id, kwargs, "None", << >>, FALSE)
             /\ UNCHANGED <<contacts, next_id, file, clock, assigned, lastReturned>>
        ELSE IF update_raises(kwargs)
        THEN /\ result' = Result(op, contact_id, kwargs, "ValueError", << >>, FALSE)
             /\ UNCHANGED <<contacts, next_id, file, clock, assigned, lastReturned>>
        ELSE LET contact == apply_update(contacts[i], kwargs, clock)
             IN  /\ clock <= MaxClock
                 /\ contacts' = [contacts EXCEPT ![i] = contact]
                 /\ file' = save_contacts(contacts')
                 /\ clock' = clock + 1
                 /\ result' = Result(op, contact_id, kwargs, "contact", <<contact>>, TRUE)
                 /\ UNCHANGED <<next_id, assigned, lastReturned>>

AddContact(inputs) == \E a \in inputs : add_contact("add", a)

UpdateContact(inputs) ==
    \E contact_id \in Ids : \E kwargs \in inputs :
        update_contact("update", contact_id, kwargs)

\* as DeleteContact, had delete_contact not saved
DeleteContact_unsaved ==
    \E contact_id \in Ids :
        LET i == find(contacts, contact_id)
        IN  IF i = 0
            THEN /\ result' = Result("delete", contact_id, NoArgs, "False", << >>, FALSE)
                 /\ UNCHANGED <<contacts, next_id, file, clock, assigned, lastReturned>>
            ELSE /\ contacts' = remove_at(contacts, i)
                 /\ result' = Result("delete", contact_id, NoArgs, "True", << >>, TRUE)
                 /\ UNCHANGED <<next_id, file, clock, assigned, lastReturned>>

DeleteContact ==
    \E contact_id \in Ids :
        LET i == find(contacts, contact_id)
        IN  IF i = 0
            THEN /\ result' = Result("delete", contact_id, NoArgs, "False", << >>, FALSE)
                 /\ UNCHANGED <<contacts, next_id, file, clock, assigned, lastReturned>>
            ELSE /\ contacts' = remove_at(contacts, i)
                 /\ file' = save_contacts(contacts')
                 /\ result' = Result("delete", contact_id, NoArgs, "True", << >>, TRUE)
                 /\ UNCHANGED <<next_id, clock, assigned, lastReturned>>

GetContact ==
    \E contact_id \in Ids :
        LET i == find(contacts, contact_id)
        IN  /\ result' = IF i = 0
                         THEN Result("get", contact_id, NoArgs, "None", << >>, FALSE)
                         ELSE Result("get", contact_id, NoArgs, "contact",
                                     <<contacts[i]>>, FALSE)
            /\ UNCHANGED <<contacts, next_id, file, clock, assigned, lastReturned>>

ListContacts ==
    /\ result' = Result("list", 0, NoArgs, "list", list_contacts(contacts), FALSE)
    /\ UNCHANGED <<contacts, next_id, file, clock, assigned, lastReturned>>

SearchContacts(queries) ==
    \E query \in queries :
        /\ result' = Result("search", 0, [query |-> query], "list",
                            search_contacts(contacts, query), FALSE)
        /\ UNCHANGED <<contacts, next_id, file, clock, assigned, lastReturned>>

GetStats ==
    /\ result' = IF stats_raises(contacts)
                 THEN Result("stats", 0, NoArgs, "IndexError", << >>, FALSE)
                 ELSE Result("stats", 0, NoArgs, "dict", get_stats(contacts), FALSE)
    /\ UNCHANGED <<contacts, next_id, file, clock, assigned, lastReturned>>

ExportContacts ==
    \E format_type \in Formats :
        /\ result' =
             CASE format_type = "json" ->
                    Result("export", 0, [format_type |-> format_type], "text",
                           json_dump(contacts), FALSE)
               [] format_type = "csv" ->
                    Result("export", 0, [format_type |-> format_type], "text",
                           export_csv(contacts), FALSE)
               [] OTHER ->
                    Result("export", 0, [format_type |-> format_type], "ValueError",
                           << >>, FALSE)
        /\ UNCHANGED <<contacts, next_id, file, clock, assigned, lastReturned>>

----------------------------------------------------------------------------
\* The routes of src/ui_web/app.py

\* (form.get(k) or "").strip()
form_get(form, k) == strip(IF k \in DOMAIN form THEN form[k] ELSE << >>)

FormKeys == {"name", "email", "phone", "company", "address", "notes"}

\* POST /contacts
create_contact ==
    \E form \in CreateForms :
        add_contact("create_contact", [k \in FormKeys |-> form_get(form, k)])

\* POST /contacts/<int:contact_id>/update
update_contact_route ==
    \E contact_id \in Ids : \E form \in UpdateForms :
        update_contact("update_contact", contact_id,
                       [k \in FormKeys |-> form_get(form, k)])

Next ==
    \/ AddContact(AddInputs) /\ UNCHANGED requests
    \/ UpdateContact(UpdateInputs) /\ UNCHANGED requests
    \/ DeleteContact /\ UNCHANGED requests
    \/ GetContact /\ UNCHANGED requests
    \/ ListContacts /\ UNCHANGED requests
    \/ SearchContacts(Queries) /\ UNCHANGED requests
    \/ GetStats /\ UNCHANGED requests
    \/ ExportContacts /\ UNCHANGED requests
    \/ create_contact /\ UNCHANGED requests
    \/ update_contact_route /\ UNCHANGED requests
    \/ Reload /\ UNCHANGED requests

Spec == Init /\ [][Next]_vars

\* the store driven for its two listing operations
NextSearch ==
    \/ AddContact(SearchAddInputs) /\ UNCHANGED requests
    \/ UpdateContact(SearchUpdateInputs) /\ UNCHANGED requests
    \/ DeleteContact /\ UNCHANGED requests
    \/ ListContacts /\ UNCHANGED requests
    \/ SearchContacts(SearchQueries) /\ UNCHANGED requests

SpecSearch == Init /\ [][NextSearch]_vars

\* the same store when no caller passes update_contact the key "id"
FieldUpdateInputs == {kwargs \in UpdateInputs : "id" \notin DOMAIN kwargs}

NextFieldUpdates ==
    \/ AddContact(AddInputs) /\ UNCHANGED requests
    \/ UpdateContact(FieldUpdateInputs) /\ UNCHANGED requests
    \/ DeleteContact /\ UNCHANGED requests
    \/ create_contact /\ UNCHANGED requests
    \/ update_contact_route /\ UNCHANGED requests
    \/ Reload /\ UNCHANGED requests

SpecFieldUpdates == Init /\ [][NextFieldUpdates]_vars

----------------------------------------------------------------------------
\* POST /contacts handled by the server's threads. app.py holds one
\* ContactManager for all requests and no lock, and app.run serves every
\* request in a thread of its own, so the statements of add_contact of two
\* requests interleave. A step is one access to the shared manager or file.

RaceForms == CreateForms \cup {[name |-> S_Bo], [name |-> S_al, email |-> S_email_ok]}

\* open(self.data_file, 'w') leaves an empty file, which json.load rejects
truncated == [kind |-> "malformed", text |-> << >>]

\* the file after a handle opened at offset 0 writes text: what the file
\* held behind the end of text stays. The texts written here are dumps of
\* a list that only grows, so one that holds more records is the longer.
overwrite(f, text) ==
    IF f.kind = "json" /\ Len(f.text) > Len(text)
    THEN [kind |-> "malformed", text |-> << >>]
    ELSE [kind |-> "json", text |-> text]

\* the route reads the form and add_contact makes its two checks
Receive(t) ==
    /\ requests[t].pc = "waiting"
    /\ \E form \in RaceForms :
          LET a == [k \in FormKeys |-> form_get(form, k)]
          IN  requests' = [requests EXCEPT ![t] =
                  IF add_raises(a)
                  THEN [@ EXCEPT !.pc = "done", !.args = a, !.flash = "danger"]
                  ELSE [@ EXCEPT !.pc = "build", !.args = a]]
    /\ UNCHANGED <<contacts, next_id, file, clock, result, assigned, lastReturned>>

\* contact = {'id': self.next_id, ...}
Build(t) ==
    /\ requests[t].pc = "build"
    /\ \E t2 \in {clock, clock + 1} :
          /\ t2 <= MaxClock
          /\ clock' = t2
          /\ requests' = [requests EXCEPT ![t] =
                [@ EXCEPT !.pc = "append",
                          !.contact = new_contact(next_id, requests[t].args, clock, t2)]]
    /\ UNCHANGED <<contacts, next_id, file, result, assigned, lastReturned>>

\* self.contacts.append(contact)
AppendContact(t) ==
    /\ requests[t].pc = "append"
    /\ contacts' = Append(contacts, requests[t].contact)
    /\ requests' = [requests EXCEPT ![t].pc = "load_next_id"]
    /\ UNCHANGED <<next_id, file, clock, result, assigned, lastReturned>>

\* self.next_id += 1: the read
LoadNextId(t) ==
    /\ requests[t].pc = "load_next_id"
    /\ requests' = [requests EXCEPT ![t] =
          [@ EXCEPT !.pc = "store_next_id", !.loaded = next_id]]
    /\ UNCHANGED <<contacts, next_id, file, clock, result, assigned, lastReturned>>

\* self.next_id += 1: the write
StoreNextId(t) ==
    /\ requests[t].pc = "store_next_id"
    /\ next_id' = bump_next_id(requests[t].loaded)
    /\ requests' = [requests EXCEPT ![t].pc = "open"]
    /\ UNCHANGED <<contacts, file, clock, result, assigned, lastReturned>>

\* save_contacts: with open(self.data_file, 'w') as f
OpenFile(t) ==
    /\ requests[t].pc = "open"
    /\ file' = truncated
    /\ requests' = [requests EXCEPT ![t].pc = "dump"]
    /\ UNCHANGED <<contacts, next_id, clock, result, assigned, lastReturned>>

\* save_contacts: json.dump(self.contacts, f, indent=2) into the buffer of f
Dump(t) ==
    /\ requests[t].pc = "dump"
    /\ requests' = [requests EXCEPT ![t] =
          [@ EXCEPT !.pc = "close", !.buffer = json_dump(contacts)]]
    /\ UNCHANGED <<contacts, next_id, file, clock, result, assigned, lastReturned>>

\* save_contacts: the with block ends and the buffer is written; add_contact
\* returns the contact and the route flashes "Contact created"
Close(t) ==
    /\ requests[t].pc = "close"
    /\ file' = overwrite(file, requests[t].buffer)
    /\ requests' = [requests EXCEPT ![t] = [@ EXCEPT !.pc = "done", !.flash = "success"]]
    /\ result' = Result("create_contact", 0, requests[t].args, "contact",
                        <<requests[t].contact>>, TRUE)
    /\ assigned' = assigned \cup {requests[t].contact["id"]}
    /\ lastReturned' = requests[t].contact["id"]
    /\ UNCHANGED <<contacts, next_id, clock>>

NextWeb ==
    \E t \in Threads :
        \/ Receive(t)
        \/ Build(t)
        \/ AppendContact(t)
        \/ LoadNextId(t)
        \/ StoreNextId(t)
        \/ OpenFile(t)
        \/ Dump(t)
        \/ Close(t)

SpecWeb == Init /\ [][NextWeb]_vars

----------------------------------------------------------------------------
\* Properties

AddOps == {"add", "create_contact"}
UpdateOps == {"update", "update_contact"}

\* the last operation was an add_contact that returned its record
AddReturned == result.op \in AddOps /\ result.status = "contact"
\* the last operation was an add_contact that raised ValueError
AddRaised == result.op \in AddOps /\ result.status = "ValueError"
\* the last operation was an update_contact that returned the record
UpdateReturned == result.op \in UpdateOps /\ result.status = "contact"

IdsUnique ==
    \A i, j \in 1..Len(contacts) : contacts[i]["id"] = contacts[j]["id"] => i = j

\* C1: the ids of the stored contacts are pairwise distinct, and add_contact
\* never assigns an id that an earlier add_contact assigned, whether or not
\* that contact was deleted and whether or not the store was constructed
\* again from its file in between.
C1_IdsUniqueNeverReused ==
    [][/\ IdsUnique'
       /\ AddReturned' => result'.ret[1]["id"] \notin assigned]_vars

\* C2: within one store instance the ids add_contact returns increase
\* strictly, the add_contact that follows a successful delete_contact of id k
\* does not return k, and an add_contact that raises leaves next_id alone.
C2_AddIdsIncrease ==
    [][/\ AddReturned' => result'.ret[1]["id"] > lastReturned
       /\ (AddReturned' /\ result.op = "delete" /\ result.status = "True")
             => result'.ret[1]["id"] # result.id
       /\ AddRaised' => next_id' = next_id]_vars

\* C3: no update_contact changes the id or the created_at of a stored
\* contact.
C3_IdCreatedAtImmutable ==
    [][result'.op \in UpdateOps =>
          /\ Len(contacts') = Len(contacts)
          /\ \A i \in 1..Len(contacts) :
                /\ contacts'[i]["id"] = contacts[i]["id"]
                /\ contacts'[i]["created_at"] = contacts[i]["created_at"]]_vars

\* the last operation was a delete_contact that returned True
DeleteReturned == result.op = "delete" /\ result.status = "True"

\* the operations that save_contacts is called by
Saved == AddReturned \/ UpdateReturned \/ DeleteReturned

\* C4: the backing file always holds the collection in memory, so that a
\* store constructed from it has the same contacts in the same order; the
\* operations that write it are the add, update and delete calls that
\* succeed, and no other operation changes the file.
C4_FileIsSnapshot ==
    /\ [](/\ load_contacts(file) = contacts
          /\ result.wrote <=> Saved)
    /\ [][/\ Saved' => file' = [kind |-> "json", text |-> json_dump(contacts')]
          /\ (~Saved' /\ result'.op # "init") => file' = file]_vars

C4_Witness ==
    /\ DeleteReturned
    /\ Len(contacts) >= 1
    /\ file.kind = "json"
    /\ Len(file.text) = Len(contacts)

\* C5: an add_contact or update_contact that raises ValueError leaves the
\* collection, next_id and the backing file as they were.
C5_FailedValidationNoEffect ==
    [][(result'.op \in AddOps \cup UpdateOps /\ result'.status = "ValueError") =>
          /\ contacts' = contacts
          /\ next_id' = next_id
          /\ file' = file]_vars

\* an update_contact of a stored contact raised although it also named a
\* field that needs no validation
C5_Witness ==
    /\ result.op \in UpdateOps
    /\ result.status = "ValueError"
    /\ "name" \in DOMAIN result.args
    /\ result.args["name"] # << >>
    /\ find(contacts, result.id) # 0

\* C6: update_contact, delete_contact and get_contact of an id no stored
\* contact has return None, False and None, without raising and whatever
\* the keyword arguments are, and change nothing.
C6_NotFoundIsSentinel ==
    [][(result'.op \in UpdateOps \cup {"delete", "get"}
          /\ find(contacts, result'.id) = 0) =>
          /\ result'.status = IF result'.op = "delete" THEN "False" ELSE "None"
          /\ ~result'.wrote
          /\ contacts' = contacts
          /\ next_id' = next_id
          /\ file' = file]_vars

\* update_contact returned None for keyword arguments that fail validation
C6_Witness ==
    /\ result.op \in UpdateOps
    /\ result.status = "None"
    /\ update_raises(result.args)

\* C7: every stored contact has a name that is not empty.
C7_NameNeverEmpty == \A i \in 1..Len(contacts) : contacts[i]["name"] # << >>

\* C8: every stored email is empty or passes validate_email, and every
\* stored phone is empty or has at least ten digits.
C8_StoredEmailPhoneValid ==
    \A i \in 1..Len(contacts) :
        /\ contacts[i]["email"] = << >> \/ validate_email(contacts[i]["email"])
        /\ \/ contacts[i]["phone"] = << >>
           \/ Cardinality({k \in 1..Len(contacts[i]["phone"]) :
                              IsDigit(contacts[i]["phone"][k])}) >= 10

\* an update_contact stored an email and a phone
C8_Witness ==
    /\ UpdateReturned
    /\ "phone" \in DOMAIN result.args
    /\ result.ret[1]["email"] # << >>
    /\ result.ret[1]["phone"] # << >>

\* C9: an update_contact that returns the record has set the fields named
\* in its keyword arguments to the values given, set updated_at to the
\* instant of the call (whatever value was given for it), kept every other
\* field, added no key, and left the other contacts, the order, the length
\* and next_id as they were.
C9_UpdateFrame ==
    [][UpdateReturned' =>
          LET i == find(contacts, result'.id)
              kwargs == result'.args
          IN  /\ i # 0
              /\ Len(contacts') = Len(contacts)
              /\ next_id' = next_id
              /\ \A j \in 1..Len(contacts) : j # i => contacts'[j] = contacts[j]
              /\ DOMAIN contacts'[i] = DOMAIN contacts[i]
              /\ \A k \in DOMAIN contacts[i] :
                    contacts'[i][k] =
                        IF k = "updated_at" THEN isoformat(clock)
                        ELSE IF k \in DOMAIN kwargs THEN kwargs[k]
                        ELSE contacts[i][k]
              /\ result'.ret = <<contacts'[i]>>]_vars

\* an update_contact that named a key no record has returned the record,
\* with a second contact in the store
C9_Witness ==
    /\ UpdateReturned
    /\ "nickname" \in DOMAIN result.args
    /\ Len(contacts) >= 2
    /\ result.ret[1]["name"] = S_Bo

SearchedFields == {"name", "email", "phone", "company", "notes"}

\* the positions of the contacts in which the lowercased query occurs
Matching(cs, query) ==
    {i \in 1..Len(cs) :
        \E f \in SearchedFields : contains(lower(cs[i][f]), lower(query))}

\* r holds exactly the contacts of cs at the positions in M, by lowercased
\* name, and by position where the lowercased names are equal
IsOrderedSelection(r, cs, M) ==
    /\ Len(r) = Cardinality(M)
    /\ \E f \in [1..Len(r) -> M] :
          /\ \A k \in 1..Len(r) : r[k] = cs[f[k]]
          /\ \A k, l \in 1..Len(r) :
                k < l =>
                   \/ str_lt(lower(r[k]["name"]), lower(r[l]["name"]))
                   \/ /\ lower(r[k]["name"]) = lower(r[l]["name"])
                      /\ f[k] < f[l]

AllAnswered == \A t \in Threads : requests[t].pc = "done"

\* the requests whose add_contact has built its contact
Built == {t \in Threads : requests[t].pc \notin {"waiting", "build"}
                          /\ requests[t].flash # "danger"}

\* the requests that were answered "Contact created"
Created == {t \in Threads : requests[t].flash = "success"}

\* C11: when requests to create a contact are handled concurrently, the
\* contacts they create have distinct ids, and each of them is in the
\* collection and in the backing file once all requests are answered.
C11_ConcurrentCreatesKept ==
    /\ \A t, u \in Built :
          t # u => requests[t].contact["id"] # requests[u].contact["id"]
    /\ AllAnswered =>
          \A t \in Created :
              /\ \E i \in 1..Len(contacts) : contacts[i] = requests[t].contact
              /\ \E i \in 1..Len(load_contacts(file)) :
                    load_contacts(file)[i] = requests[t].contact

====
